---------------------------- MODULE Spec2Model ----------------------------
(***************************************************************************)
(* Model of update-expert-templates.py: a batch script that loads the      *)
(* template catalog and the optimized expert prompts, writes a timestamped *)
(* backup of the catalog, merges the five mapped experts into the catalog  *)
(* in memory, stamps the version information and overwrites the catalog.   *)
(*                                                                         *)
(* A file is a record [kind, doc]: kind "json" holds a parsed document,    *)
(* "partial" is what an interrupted write leaves behind, "malformed" is a  *)
(* text that is no JSON, "missing" is no file.  A JSON object is a         *)
(* function from its keys to its values, a JSON array a sequence.          *)
(***************************************************************************)
EXTENDS Integers, Sequences, FiniteSets, TLC

VARIABLES
    files,          \* the file system: path -> file
    now,            \* the wall clock, in seconds
    runs,           \* how many times the script has been started
    pc,             \* the statement the running script is at, or "exited"
    backup_file,    \* local of update_expert_templates: the backup path
    original_data,  \* local: the catalog document in memory
    optimized_data, \* local: the optimization source document in memory
    idx,            \* position of the for loop in expert_mapping
    updated_count,  \* local: experts updated so far
    exitStatus,     \* exit status of the last run (-1 while none has ended)
    err,            \* the exception that ended the run: [type, at]
    preRun,         \* history: the file system when the run started
    stamps,         \* history: executions of the version stamp in this run
    written         \* history: catalog documents completely written, per run

vars == <<files, now, runs, pc, backup_file, original_data, optimized_data,
          idx, updated_count, exitStatus, err, preRun, stamps, written>>

-----------------------------------------------------------------------------
(* Bounds of the model *)

MaxRuns == 2
MaxPreLen == 11

(* Program constants *)

MaxTemplates == 10

-----------------------------------------------------------------------------
(* Paths *)

original_file == "data/templates-2025.json"
optimized_file == "optimized-expert-prompts.json"

BackupPath(t) == "data/templates-2025-backup-" \o ToString(t) \o ".json"

-----------------------------------------------------------------------------
(* JSON and files *)

None == [k \in {} |-> 0]

MissingFile == [kind |-> "missing", doc |-> None]
MalformedFile == [kind |-> "malformed", doc |-> None]
PartialFile == [kind |-> "partial", doc |-> None]

\* json.dump of a document followed by the close of the file
JsonFile(data) == [kind |-> "json", doc |-> data]

\* load_json_file: open() fails on a missing file, json.load on a text
\* that is no complete JSON document
load_json_file(fs, path) ==
    LET f == fs[path] IN
    CASE f.kind = "json"    -> [err |-> "none", data |-> f.doc]
      [] f.kind = "missing" -> [err |-> "FileNotFoundError", data |-> None]
      [] OTHER              -> [err |-> "JSONDecodeError", data |-> None]

\* What the environment lets a write do: succeed, fail in open() before the
\* file is truncated, or fail after open() truncated it
WriteOutcomes == {"ok", "open_failed", "write_failed"}

\* save_json_file under a given outcome
save_json_file(fs, data, path, outcome) ==
    CASE outcome = "ok" ->
            [err |-> "none", fs |-> [fs EXCEPT ![path] = JsonFile(data)]]
      [] outcome = "open_failed" ->
            [err |-> "OSError", fs |-> fs]
      [] OTHER ->
            [err |-> "OSError", fs |-> [fs EXCEPT ![path] = PartialFile]]

\* d[k] = v on a dict
Put(d, k, v) == [x \in DOMAIN d \cup {k} |-> IF x = k THEN v ELSE d[x]]

-----------------------------------------------------------------------------
(* The template builder and the merge of one expert *)

PromptFields == {"system", "context", "task_framework", "output_format",
                 "safety_guidelines"}

\* the keys create_optimized_template reads from expert_info, in order
BuilderReads == <<"name", "description", "optimized_prompt",
                  "core_competencies", "target_users">>

MissingKeys(d, keys) == {i \in 1..Len(keys) : keys[i] \notin DOMAIN d}

create_optimized_template(expert_key, optimized, original_template) ==
    LET expert_info == optimized["experts"][expert_key]
        missing == MissingKeys(expert_info, BuilderReads)
    IN  IF missing # {}
        THEN [err |-> "KeyError", template |-> None]
        ELSE IF PromptFields \ DOMAIN expert_info["optimized_prompt"] # {}
        THEN [err |-> "KeyError", template |-> None]
        ELSE
        LET p == expert_info["optimized_prompt"] IN
        [err |-> "none",
         template |->
           [id |-> expert_key \o "-professional-consultation",
            title |-> "professional " \o expert_info["name"] \o " assistant",
            category |-> "professional consultation",
            description |-> "action coach: " \o expert_info["description"],
            difficulty |-> "professional",
            estimatedTime |-> "15-30 min",
            prompt |-> [system |-> p["system"],
                        context |-> p["context"],
                        task |-> p["task_framework"],
                        format |-> p["output_format"],
                        examples |-> "scenarios of " \o expert_info["name"],
                        safety |-> p["safety_guidelines"]],
            tags |-> expert_info["core_competencies"],
            useCases |-> expert_info["target_users"],
            targetUsers |-> expert_info["target_users"],
            coreCompetencies |-> expert_info["core_competencies"],
            bestPractices |-> <<"actionable", "localized", "risk", "decision",
                                "guidance">>,
            optimizationFeatures |-> <<"coach", "framework", "checklist",
                                       "localized", "ethics">>]]

\* list.insert(0, x)
InsertAppend(list, x) == Append(list, x)
InsertReplace(list, x) == IF Len(list) = 0 THEN <<x>> ELSE <<x>> \o Tail(list)
Insert0(list, x) == <<x>> \o list

\* list[:10] when len(list) > 10
NoTruncate(list) == list
Truncate(list) ==
    IF Len(list) > MaxTemplates THEN SubSeq(list, 1, MaxTemplates) ELSE list

\* list[0] raises IndexError on an empty list
NeverIndexError(list) == FALSE
IndexError0(list) == Len(list) = 0

\* updated_count += 1
KeepCount(c) == c
IncCount(c) == c + 1

\* the basic-information assignments of the loop body, in order:
\* <<field of the industry, field of the expert>>
BasicInfo == <<
    <<"name", "name">>,
    <<"description", "description">>,
    <<"emoji", "emoji">>,
    <<"targetUsers", "target_users">>,
    <<"coreCompetencies", "core_competencies">> >>

\* the assignments from number n on; a missing expert field stops them
RECURSIVE CopyBasicInfo(_, _, _)
CopyBasicInfo(industry, expert, n) ==
    IF n > Len(BasicInfo)
    THEN [err |-> "none", industry |-> industry]
    ELSE IF BasicInfo[n][2] \notin DOMAIN expert
    THEN [err |-> "KeyError", industry |-> industry]
    ELSE CopyBasicInfo(Put(industry, BasicInfo[n][1], expert[BasicInfo[n][2]]),
                       expert, n + 1)

\* the body of the loop for one expert present in both documents:
\* [err, data] where data is original_data as the body leaves it
UpdateExpert(data, optimized, expert_key, optimized_key) ==
    LET expert == optimized["experts"][optimized_key]
        industry == data["industries"][expert_key]
        WithIndustry(ind) ==
            Put(data, "industries", Put(data["industries"], expert_key, ind))
    IN  IF "name" \notin DOMAIN expert
        THEN [err |-> "KeyError", data |-> data]
        ELSE
        LET basic == CopyBasicInfo(industry, expert, 1) IN
        IF basic.err # "none"
        THEN [err |-> basic.err, data |-> WithIndustry(basic.industry)]
        ELSE IF "templates" \notin DOMAIN industry
        THEN [err |-> "KeyError", data |-> WithIndustry(basic.industry)]
        ELSE IF IndexError0(industry["templates"])
        THEN [err |-> "IndexError", data |-> WithIndustry(basic.industry)]
        ELSE
        LET built == create_optimized_template(expert_key, optimized,
                                               industry["templates"][1])
        IN  IF built.err # "none"
            THEN [err |-> built.err, data |-> WithIndustry(basic.industry)]
            ELSE [err |-> "none",
                  data |-> WithIndustry(
                      Put(basic.industry, "templates",
                          Truncate(Insert0(industry["templates"],
                                           built.template))))]

\* expert_mapping, in the order of the dict
MappingWithDoctor == <<
    [expert_key |-> "teacher", optimized_key |-> "teacher"],
    [expert_key |-> "lawyer", optimized_key |-> "lawyer"],
    [expert_key |-> "accountant", optimized_key |-> "accountant"],
    [expert_key |-> "realtor", optimized_key |-> "realtor"],
    [expert_key |-> "insurance", optimized_key |-> "insurance"],
    [expert_key |-> "doctor", optimized_key |-> "doctor"] >>
expert_mapping == <<
    [expert_key |-> "teacher", optimized_key |-> "teacher"],
    [expert_key |-> "lawyer", optimized_key |-> "lawyer"],
    [expert_key |-> "accountant", optimized_key |-> "accountant"],
    [expert_key |-> "realtor", optimized_key |-> "realtor"],
    [expert_key |-> "insurance", optimized_key |-> "insurance"] >>

\* the condition of the if in the loop
InBoth(data, optimized, m) ==
    /\ m.expert_key \in DOMAIN data["industries"]
    /\ m.optimized_key \in DOMAIN optimized["experts"]

\* the version stamp
StampVersion(data, count, backup, t) ==
    Put(Put(Put(data, "version", "2025.2-optimized"),
            "lastUpdated", t),
        "optimizationInfo",
        [optimizedBy |-> "Claude Code AI Prompt Generator",
         optimizationDate |-> t,
         expertCount |-> count,
         backupFile |-> backup])


-----------------------------------------------------------------------------
(* The documents the script is run on *)

TableKeys == {expert_mapping[i].expert_key : i \in 1..Len(expert_mapping)}

\* "doctor" is a key the mapping table does not have
Keys == TableKeys \cup {"doctor"}

\* the key sets of the documents: none, a single key, all keys of the table,
\* and two sets that overlap in a key of the table and in a key outside it
KeySets ==
    {{}} \cup {{k} : k \in {"lawyer", "realtor", "doctor"}} \cup {TableKeys}
         \cup {{"lawyer", "insurance", "doctor"},
               {"teacher", "lawyer", "realtor", "doctor"}}

ExpertShapes == {"full", "no_emoji", "no_safety"}

ExpertInfo(k, shape) ==
    LET full == [name |-> k \o " expert",
                 description |-> k \o " services",
                 emoji |-> k \o " emoji",
                 target_users |-> <<k \o " clients">>,
                 core_competencies |-> <<k \o " skills">>,
                 optimized_prompt |->
                    [f \in IF shape = "no_safety"
                           THEN PromptFields \ {"safety_guidelines"}
                           ELSE PromptFields |-> k \o " prompt"]]
    IN  IF shape = "no_emoji"
        THEN [f \in DOMAIN full \ {"emoji"} |-> full[f]]
        ELSE full

SourceDoc(S, shape) ==
    [x \in {"experts"} |-> [k \in S |-> ExpertInfo(k, shape)]]

OriginalTemplate(k, i) ==
    [id |-> k \o "-template-" \o ToString(i),
     title |-> k \o " template",
     category |-> "general"]

\* the optimized template of k as a source with complete expert records
\* makes it
FullTemplate(k) ==
    create_optimized_template(k, SourceDoc({k}, "full"), None).template

\* the lengths of the template lists of the catalogs: empty, one entry, and
\* around the limit
PreLens == {0, 1} \cup ((MaxTemplates - 1)..MaxPreLen)

\* the template lists: n original templates, or (n = -1) a list that earlier
\* runs filled with the optimized template
PreTemplates(k, n) ==
    IF n = -1
    THEN [i \in 1..MaxTemplates |-> FullTemplate(k)]
    ELSE [i \in 1..n |-> OriginalTemplate(k, i)]

Industry(k, n) ==
    [name |-> k,
     description |-> k \o " industry",
     emoji |-> "old emoji",
     targetUsers |-> <<"everyone">>,
     coreCompetencies |-> <<"general">>,
     templates |-> PreTemplates(k, n)]

CatalogDoc(S, n) ==
    [version |-> "2025.1",
     lastUpdated |-> 0,
     industries |-> [k \in S |-> Industry(k, n)]]

CatalogFiles ==
    {MissingFile, MalformedFile}
        \cup {JsonFile(CatalogDoc(S, n)) : S \in KeySets, n \in PreLens \cup {-1}}

SourceFiles ==
    {MalformedFile}
        \cup {JsonFile(SourceDoc(S, shape)) : S \in KeySets, shape \in ExpertShapes}

Clock == 0..MaxRuns

Paths == {original_file, optimized_file} \cup {BackupPath(t) : t \in Clock}

-----------------------------------------------------------------------------
(* The run *)

NoError == [type |-> "none", at |-> "none"]

\* the statements of update_expert_templates, in program order
BackupAfterStamp == <<"load_original", "load_optimized", "merge", "stamp",
                      "backup", "save">>
BackupAfterSave == <<"load_original", "load_optimized", "merge", "stamp",
                     "save", "backup">>
SaveBeforeMerge == <<"load_original", "load_optimized", "backup", "stamp",
                     "save", "merge">>
Steps == <<"load_original", "load_optimized", "backup", "merge", "stamp",
           "save">>

Position(step) == CHOOSE i \in 1..Len(Steps) : Steps[i] = step

\* the statement after step; after the last one the script returns and the
\* process exits with status 0
After(step) ==
    IF Position(step) = Len(Steps) THEN "exited" ELSE Steps[Position(step) + 1]

Init ==
    /\ \E c \in CatalogFiles, s \in SourceFiles :
          files = [p \in Paths |-> IF p = original_file THEN c
                                   ELSE IF p = optimized_file THEN s
                                   ELSE MissingFile]
    /\ now = 0
    /\ runs = 0
    /\ pc = "idle"
    /\ backup_file = "none"
    /\ original_data = None
    /\ optimized_data = None
    /\ idx = 1
    /\ updated_count = 0
    /\ exitStatus = -1
    /\ err = NoError
    /\ preRun = files
    /\ stamps = 0
    /\ written = << >>

\* the first run starts in second 0, a later run in the second of the run
\* before it or in a later one
StartTimes == IF runs = 0 THEN {now} ELSE {now, now + 1}

\* the process is started; backup_file takes the time of the start
Start ==
    /\ pc \in {"idle", "exited"}
    /\ runs < MaxRuns
    /\ \E t \in StartTimes :
          /\ now' = t
          /\ backup_file' = BackupPath(t)
    /\ runs' = runs + 1
    /\ pc' = Steps[1]
    /\ original_data' = None
    /\ optimized_data' = None
    /\ idx' = 1
    /\ updated_count' = 0
    /\ exitStatus' = -1
    /\ err' = NoError
    /\ preRun' = files
    /\ stamps' = 0
    /\ UNCHANGED <<files, written>>

\* an exception reaches the handler of __main__: exit(1)
Raise(type) ==
    /\ pc' = "exited"
    /\ exitStatus' = 1
    /\ err' = [type |-> type, at |-> pc]

\* the statement completes
Proceed ==
    /\ pc' = After(pc)
    /\ exitStatus' = IF After(pc) = "exited" THEN 0 ELSE exitStatus
    /\ err' = err

LoadOriginal ==
    /\ pc = "load_original"
    /\ LET r == load_json_file(files, original_file) IN
         IF r.err = "none"
         THEN original_data' = r.data /\ Proceed
         ELSE original_data' = original_data /\ Raise(r.err)
    /\ UNCHANGED <<files, now, runs, backup_file, optimized_data, idx,
                   updated_count, preRun, stamps, written>>

LoadOptimized ==
    /\ pc = "load_optimized"
    /\ LET r == load_json_file(files, optimized_file) IN
         IF r.err = "none"
         THEN optimized_data' = r.data /\ Proceed
         ELSE optimized_data' = optimized_data /\ Raise(r.err)
    /\ UNCHANGED <<files, now, runs, backup_file, original_data, idx,
                   updated_count, preRun, stamps, written>>

Backup ==
    /\ pc = "backup"
    /\ \E outcome \in WriteOutcomes :
         LET r == save_json_file(files, original_data, backup_file, outcome) IN
         /\ files' = r.fs
         /\ IF r.err = "none" THEN Proceed ELSE Raise(r.err)
    /\ UNCHANGED <<now, runs, backup_file, original_data, optimized_data, idx,
                   updated_count, preRun, stamps, written>>

\* one round of the for loop leaves the loop after the last entry
LoopNext ==
    /\ idx' = idx + 1
    /\ IF idx = Len(expert_mapping)
       THEN Proceed
       ELSE UNCHANGED <<pc, exitStatus, err>>

\* a round of the loop whose if is false
MergeSkip ==
    /\ pc = "merge"
    /\ idx <= Len(expert_mapping)
    /\ ~InBoth(original_data, optimized_data, expert_mapping[idx])
    /\ LoopNext
    /\ UNCHANGED <<files, now, runs, backup_file, original_data,
                   optimized_data, updated_count, preRun, stamps, written>>

\* a round of the loop whose if is true
MergeUpdate ==
    /\ pc = "merge"
    /\ idx <= Len(expert_mapping)
    /\ InBoth(original_data, optimized_data, expert_mapping[idx])
    /\ LET m == expert_mapping[idx]
           r == UpdateExpert(original_data, optimized_data,
                             m.expert_key, m.optimized_key)
       IN  /\ original_data' = r.data
           /\ IF r.err = "none"
              THEN updated_count' = IncCount(updated_count) /\ LoopNext
              ELSE updated_count' = updated_count /\ idx' = idx /\ Raise(r.err)
    /\ UNCHANGED <<files, now, runs, backup_file, optimized_data, preRun,
                   stamps, written>>

Stamp ==
    /\ pc = "stamp"
    /\ original_data' =
          StampVersion(original_data, updated_count, backup_file, now)
    /\ stamps' = stamps + 1
    /\ Proceed
    /\ UNCHANGED <<files, now, runs, backup_file, optimized_data, idx,
                   updated_count, preRun, written>>

Save ==
    /\ pc = "save"
    /\ \E outcome \in WriteOutcomes :
         LET r == save_json_file(files, original_data, original_file, outcome) IN
         /\ files' = r.fs
         /\ IF r.err = "none"
            THEN written' = Append(written, original_data) /\ Proceed
            ELSE written' = written /\ Raise(r.err)
    /\ UNCHANGED <<now, runs, backup_file, original_data, optimized_data, idx,
                   updated_count, preRun, stamps>>

Next ==
    \/ Start
    \/ LoadOriginal
    \/ LoadOptimized
    \/ Backup
    \/ MergeSkip
    \/ MergeUpdate
    \/ Stamp
    \/ Save

Spec == Init /\ [][Next]_vars

TypeOK ==
    /\ pc \in {"idle", "exited"} \cup {Steps[i] : i \in 1..Len(Steps)}
    /\ idx \in 1..(Len(expert_mapping) + 1)
    /\ updated_count \in 0..Len(expert_mapping)
    /\ exitStatus \in {-1, 0, 1}
    /\ runs \in 0..MaxRuns


-----------------------------------------------------------------------------
(* What the properties speak of *)

\* the five keys the specification names
FiveKeys == {"teacher", "lawyer", "accountant", "realtor", "insurance"}

OptimizedId(k) == k \o "-professional-consultation"

\* both documents were loaded in this run
Loaded == original_data # None /\ optimized_data # None

\* the industries of the catalog and the experts of the source as the run
\* found them on disk
PreIndustries == preRun[original_file].doc["industries"]
SrcExperts == preRun[optimized_file].doc["experts"]

PreTemplatesOf(k) == PreIndustries[k]["templates"]
NowTemplatesOf(k) == original_data["industries"][k]["templates"]

\* the keys present in both documents
BothKeys == FiveKeys \cap DOMAIN PreIndustries \cap DOMAIN SrcExperts

\* the keys whose round of the loop completed with an update
Processed ==
    {k \in BothKeys :
        \E j \in 1..(idx - 1) : j <= Len(expert_mapping)
                                /\ expert_mapping[j].expert_key = k}

\* the backup write of this run completed
BackupWritten ==
    \/ pc \in {"merge", "stamp", "save"}
    \/ pc = "exited" /\ runs > 0
          /\ (exitStatus = 0 \/ err.at \in {"merge", "stamp", "save"})

Range(seq) == {seq[i] : i \in 1..Len(seq)}

Min(a, b) == IF a < b THEN a ELSE b

-----------------------------------------------------------------------------
C2_LengthBound ==
    Loaded =>
        \A k \in Processed :
            LET pre == PreTemplatesOf(k)
                post == NowTemplatesOf(k)
            IN  /\ Len(post) <= 10
                /\ Len(post) = Min(Len(pre) + 1, 10)
                /\ post[1]["id"] = OptimizedId(k)
                /\ \A i \in 2..Len(post) : post[i] = pre[i - 1]
                /\ (Len(pre) = 10 /\ pre[10] \notin Range(SubSeq(pre, 1, 9))
                        /\ pre[10] # post[1])
                      => pre[10] \notin Range(post)

\* a merged industry whose list had ten original templates
C2_Witness ==
    /\ Loaded
    /\ \E k \in Processed :
          /\ Len(PreTemplatesOf(k)) = 10
          /\ PreTemplatesOf(k)[10] = OriginalTemplate(k, 10)
          /\ Len(NowTemplatesOf(k)) = 10

\* C3: the merge changes an industry record only when its key is one of the
\* five keys of the table and is present in both documents; the other
\* records are unchanged in memory and in the catalog that is written, no
\* industry is added or removed, and skipping a key raises no error: a
\* KeyError or an IndexError only ends a run that has a key in both documents.
C3_Frame ==
    /\ original_data # None =>
          /\ DOMAIN original_data["industries"] = DOMAIN PreIndustries
          /\ \A k \in DOMAIN PreIndustries :
                (optimized_data = None \/ k \notin BothKeys)
                    => original_data["industries"][k] = PreIndustries[k]
    /\ (pc = "exited" /\ exitStatus = 0) =>
          /\ DOMAIN files[original_file].doc["industries"] = DOMAIN PreIndustries
          /\ \A k \in DOMAIN PreIndustries \ BothKeys :
                files[original_file].doc["industries"][k] = PreIndustries[k]
    /\ (Loaded /\ err.type \in {"KeyError", "IndexError"}) => BothKeys # {}

\* a completed run on a catalog with a table key the source lacks, a source
\* with a table key the catalog lacks, and a key outside the table in both
C3_Witness ==
    /\ pc = "exited" /\ exitStatus = 0
    /\ "insurance" \in DOMAIN PreIndustries \ DOMAIN SrcExperts
    /\ "teacher" \in DOMAIN SrcExperts \ DOMAIN PreIndustries
    /\ "doctor" \in DOMAIN PreIndustries \cap DOMAIN SrcExperts
    /\ updated_count = 1

\* C4: once the backup write of a run is complete, the backup file holds the
\* catalog document as it was on disk when the run started, and it keeps
\* that content through every later step of the run.
C4_BackupContent ==
    BackupWritten =>
        /\ files[backup_file].kind = "json"
        /\ files[backup_file] = preRun[original_file]

\* a completed run that merged an expert: the catalog on disk differs from
\* the backup
C4_Witness ==
    /\ pc = "exited" /\ exitStatus = 0
    /\ updated_count > 0
    /\ files[backup_file] # files[original_file]

\* C5 as stated: whatever step fails, the run exits with status 1 and the
\* catalog file keeps its content from before the run.
C5_NoPartialWrite ==
    (pc = "exited" /\ err.type # "none") =>
        /\ exitStatus = 1
        /\ files[original_file] = preRun[original_file]

\* C5 as amended: every failure exits with status 1; a failure of a step
\* before the catalog overwrite leaves the catalog file with its content
\* from before the run, a failure of one of the two loads leaves every file
\* as it was, and a failure of the overwrite itself leaves the catalog file
\* either untouched or truncated.
C5_FailureBeforeOverwrite ==
    /\ err.type # "none" => pc = "exited" /\ exitStatus = 1
    /\ (pc = "exited" /\ exitStatus = 1) =>
          /\ err.type # "none"
          /\ err.at # "save" => files[original_file] = preRun[original_file]
          /\ err.at \in {"load_original", "load_optimized"} => files = preRun
          /\ err.at = "save" =>
                files[original_file] \in {preRun[original_file], PartialFile}
          /\ \A p \in Paths \ {original_file, backup_file} :
                files[p] = preRun[p]

\* a run that ended on the malformed JSON of the source file
C5_Witness ==
    /\ pc = "exited" /\ exitStatus = 1
    /\ err = [type |-> "JSONDecodeError", at |-> "load_optimized"]
    /\ preRun[original_file].kind = "json"
    /\ files = preRun

\* C6: the catalog file is overwritten only when the backup of this run is
\* completely written: at the overwrite, and whenever the catalog file
\* changes, the backup file holds the catalog as the run found it.
C6_BackupPrecedesOverwrite ==
    [][(pc = "save" \/ files'[original_file] # files[original_file])
          => /\ files[backup_file] = preRun[original_file]
             /\ files'[backup_file] = preRun[original_file]]_vars

\* an overwrite that failed after truncating the catalog, with the backup
\* in place
C6_Witness ==
    /\ pc = "exited" /\ err = [type |-> "OSError", at |-> "save"]
    /\ files[original_file] = PartialFile
    /\ files[backup_file] = preRun[original_file]
    /\ preRun[original_file].kind = "json"

\* C7 as stated: the merge of every expert and the version stamp are
\* completed before the backup file is written.
C7_BackupAfterStamp ==
    BackupWritten => idx = Len(expert_mapping) + 1 /\ stamps = 1

Order == {<<"idle", "load_original">>,
          <<"exited", "load_original">>,
          <<"load_original", "load_optimized">>,
          <<"load_optimized", "backup">>,
          <<"backup", "merge">>,
          <<"merge", "stamp">>,
          <<"stamp", "save">>,
          <<"save", "exited">>}

\* C7 as amended: a run goes through Load, Backup-write, Merge (once per
\* entry of the table), Stamp, Overwrite-write, Done in this order, a step
\* that raises ending the run: the backup is written before any merge, and
\* every merge and the stamp are completed before the overwrite.
C7_LinearOrder ==
    [][/\ pc' # pc => (<<pc, pc'>> \in Order
                          \/ (pc' = "exited" /\ exitStatus' = 1))
       /\ pc = "backup" =>
             /\ idx = 1 /\ stamps = 0
             /\ original_data = preRun[original_file].doc
       /\ (pc = "merge" /\ pc' = "merge") => idx' = idx + 1
       /\ pc = "stamp" => idx = Len(expert_mapping) + 1 /\ stamps = 0
       /\ pc = "save" => idx = Len(expert_mapping) + 1 /\ stamps = 1]_vars

\* the backup is written and no expert is merged yet
C7_Witness ==
    /\ pc = "merge" /\ idx = 1 /\ stamps = 0
    /\ files[backup_file] = preRun[original_file]
    /\ BothKeys # {}

\* the results of two runs in sequence: a pair of catalogs written one after
\* the other
Pairs == 1..(Len(written) - 1)

ExpertCount(doc) == doc["optimizationInfo"].expertCount

\* the industries both runs processed
ProcessedTwice(i) ==
    FiveKeys \cap DOMAIN written[i]["industries"] \cap DOMAIN SrcExperts

\* C8 as stated: between the results of two runs in sequence that processed
\* an industry, the updated count field differs and the list of every
\* processed industry differs.
C8_CountAndListsDiffer ==
    \A i \in Pairs :
        ProcessedTwice(i) # {} =>
            /\ ExpertCount(written[i]) # ExpertCount(written[i + 1])
            /\ \A k \in ProcessedTwice(i) :
                  written[i]["industries"][k]["templates"]
                      # written[i + 1]["industries"][k]["templates"]

\* C8 as amended: after two runs in sequence every processed industry has
\* the optimized template at index 0 and at index 1; its list differs from
\* the list after the first run unless that list held nothing but the
\* optimized template; the updated count is the same after both runs.
C8_NotIdempotent ==
    \A i \in Pairs :
        /\ ExpertCount(written[i]) = ExpertCount(written[i + 1])
        /\ ExpertCount(written[i]) = Cardinality(ProcessedTwice(i))
        /\ \A k \in ProcessedTwice(i) :
              LET first == written[i]["industries"][k]["templates"]
                  second == written[i + 1]["industries"][k]["templates"]
              IN  /\ Len(second) >= 2
                  /\ second[1]["id"] = OptimizedId(k)
                  /\ second[2]["id"] = OptimizedId(k)
                  /\ second[2] = first[1]
                  /\ (first = second) <=> (Range(first) = {second[1]}
                                            /\ Len(first) = 10)

\* two runs in sequence that processed an industry and left different lists
C8_Witness ==
    \E i \in Pairs :
        \E k \in ProcessedTwice(i) :
            /\ Len(written[i + 1]["industries"][k]["templates"])
                  = Len(written[i]["industries"][k]["templates"]) + 1
            /\ ExpertCount(written[i + 1]) > 0

\* C9: the version stamp runs at most once in a run and exactly once before
\* the catalog is overwritten, after the round of the last entry of the
\* table, also when no expert was updated; the count it records is the
\* number of table keys present in both documents, so a table key missing
\* from the catalog is not counted.
C9_StampOnce ==
    /\ stamps \in {0, 1}
    /\ pc = "stamp" => stamps = 0 /\ idx = Len(expert_mapping) + 1
    /\ stamps = 1 =>
          /\ idx = Len(expert_mapping) + 1
          /\ ExpertCount(original_data) = Cardinality(BothKeys)
          /\ ExpertCount(original_data) = updated_count
    /\ (pc = "save" \/ (pc = "exited" /\ exitStatus = 0)) => stamps = 1
    /\ (runs > 0 /\ files[original_file] # preRun[original_file]) => stamps = 1
    /\ (pc = "exited" /\ exitStatus = 0) =>
          ExpertCount(files[original_file].doc) = Cardinality(BothKeys)

\* a completed run whose source has realtor and whose catalog lacks it
C9_Witness ==
    /\ pc = "exited" /\ exitStatus = 0
    /\ "realtor" \in DOMAIN SrcExperts \ DOMAIN PreIndustries
    /\ ExpertCount(files[original_file].doc) = 2

\* the key of the round the loop is at
CurrentKey == expert_mapping[idx].expert_key

\* the keys present in both documents whose industry has no template
EmptyKeys == {k \in BothKeys : Len(PreTemplatesOf(k)) = 0}

\* C10: an industry present in both documents with an empty template list
\* never gets a one-element list and its run never completes: the read of
\* index 0 raises IndexError in its round of the loop, after the five basic
\* fields were overwritten in memory and after the backup was written; the
\* run exits with status 1 without version stamp and without overwrite, the
\* catalog file keeping its content.
C10_EmptyListFails ==
    /\ Loaded =>
          /\ \A k \in EmptyKeys : NowTemplatesOf(k) = << >>
          /\ EmptyKeys # {} => pc \notin {"stamp", "save"} /\ exitStatus # 0
    /\ err.type = "IndexError" =>
          /\ pc = "exited" /\ exitStatus = 1 /\ err.at = "merge"
          /\ CurrentKey \in EmptyKeys
          /\ \A j \in 1..Len(BasicInfo) :
                original_data["industries"][CurrentKey][BasicInfo[j][1]]
                    = SrcExperts[CurrentKey][BasicInfo[j][2]]
          /\ original_data["industries"][CurrentKey]["name"]
                # PreIndustries[CurrentKey]["name"]
          /\ files[backup_file] = preRun[original_file]
          /\ stamps = 0
          /\ original_data["version"] = preRun[original_file].doc["version"]
          /\ files[original_file] = preRun[original_file]

\* a run that ended on the empty list of lawyer
C10_Witness ==
    /\ pc = "exited" /\ exitStatus = 1
    /\ err = [type |-> "IndexError", at |-> "merge"]
    /\ CurrentKey = "lawyer"
    /\ original_data["industries"]["lawyer"]["emoji"] = "lawyer emoji"

=====
